---- MODULE Spec2Model ----
(***************************************************************************)
(* State-machine model of the FST builder (include/fst_builder.hpp) and of *)
(* the select structure (include/select.hpp).                              *)
(*                                                                         *)
(* Conventions.                                                            *)
(*  - Levels, slot positions and key indices are 0-based as in the source; *)
(*    TLA+ sequences are 1-based, so level L of a per-level vector v is    *)
(*    v[L + 1].                                                            *)
(*  - A std::vector<word_t> used as a bit vector is a record               *)
(*    [nwords, ones]: the number of words pushed so far and the set of bit *)
(*    positions that are set (position p lives in word p \div kWordSize at *)
(*    MSB-first offset p % kWordSize).                                     *)
(*  - A key is a sequence of bytes 0..255.                                 *)
(*  - assert() aborts the build unless the build defines NDEBUG; both      *)
(*    builds are modelled (variable ndebug).                               *)
(***************************************************************************)
EXTENDS Integers, Sequences, FiniteSets, TLC

\* config.hpp (not part of the sources at hand)
kWordSize == 64
kFanout == 256
kTerminator == 255

\* Bounds of the instances
MaxKeys == 4          \* keys per list (small instances)
MaxLen == 2           \* bytes per key (small instances)
MaxRatio == 2         \* largest sparse_dense_ratio
GridFirst == 2        \* first bytes of the two-byte key grids
GridSecond == 205     \* second bytes of the two-byte key grids
MaxSelWords == 3      \* words of a bit vector handed to BitvectorSelect
MaxInterval == 3      \* largest sample interval

\* Key bytes of the small instances: 'a' with either 'b' or the reserved byte.
Alphabets == {{97, 98}, {97, kTerminator}}

VARIABLES
    keys,                         \* the argument of build()
    ndebug,                       \* TRUE: assert() compiled out
    i,                            \* loop variable of buildSparse
    pc,                           \* position of build()
    include_dense_,
    sparse_dense_ratio_,
    sparse_start_level_,
    positions_,
    labels_,
    child_indicator_bits_,
    louds_bits_,
    positions_sparse_,
    bitmap_labels_,
    bitmap_child_indicator_bits_,
    prefixkey_indicator_bits_,
    positions_dense_,
    node_counts_,
    is_last_item_terminator_,
    d_level,                      \* buildDense: its loop variable level
    d_pos,                        \* buildDense: its loop variable pos
    d_node_num,                   \* buildDense: node_num
    \* BitvectorSelect
    sel_pc,                       \* "idle", "constructed" or "selected"
    bits_,
    num_bits_,
    sample_interval_,
    num_ones_,
    select_lut_,
    sel_rank,                     \* the argument of the last select()
    sel_result                    \* what it returned

bvars == <<keys, ndebug, i, pc, include_dense_, sparse_dense_ratio_,
           sparse_start_level_, positions_, labels_, child_indicator_bits_,
           louds_bits_, positions_sparse_, bitmap_labels_,
           bitmap_child_indicator_bits_, prefixkey_indicator_bits_,
           positions_dense_, node_counts_, is_last_item_terminator_,
           d_level, d_pos, d_node_num>>

svars == <<sel_pc, bits_, num_bits_, sample_interval_, num_ones_, select_lut_,
           sel_rank, sel_result>>

vars == <<bvars, svars>>

----------------------------------------------------------------------------
\* Bit vectors

EmptyBits == [nwords |-> 0, ones |-> {}]

PushWord(bits) == [bits EXCEPT !.nwords = @ + 1]

readBit(bits, pos) == pos \in bits.ones

setBit(bits, pos) == [bits EXCEPT !.ones = @ \cup {pos}]

\* the assert of readBit / setBit
InRange(bits, pos) == pos >= 0 /\ pos < bits.nwords * kWordSize

----------------------------------------------------------------------------
\* Keys (std::string)

\* key[level]; for level = key.length() the const operator[] yields '\0'
CharAt(key, level) == IF level < Len(key) THEN key[level + 1] ELSE 0

\* key.substr(0, n)
Substr(key, n) == SubSeq(key, 1, IF n < Len(key) THEN n ELSE Len(key))

isSameKey(a, b) == a = b

\* std::string operator< (bytes compared as unsigned char)
RECURSIVE LexLess(_, _)
LexLess(a, b) ==
    IF b = <<>> THEN FALSE
    ELSE IF a = <<>> THEN TRUE
    ELSE IF a[1] # b[1] THEN a[1] < b[1]
    ELSE LexLess(Tail(a), Tail(b))

----------------------------------------------------------------------------
\* The sparse builder state as one value, for the operators below

SparseState ==
    [labels |-> labels_, cib |-> child_indicator_bits_, louds |-> louds_bits_,
     positions |-> positions_, node_counts |-> node_counts_,
     term |-> is_last_item_terminator_]

EmptySparse ==
    [labels |-> <<>>, cib |-> <<>>, louds |-> <<>>, positions |-> <<>>,
     node_counts |-> <<>>, term |-> <<>>]

getTreeHeight(st) == Len(st.labels)

getNumItems(st, level) == Len(st.labels[level + 1])

addLevel(st) ==
    [labels |-> Append(st.labels, <<>>),
     positions |-> Append(st.positions, <<>>),
     cib |-> Append(st.cib, PushWord(EmptyBits)),
     louds |-> Append(st.louds, PushWord(EmptyBits)),
     node_counts |-> Append(st.node_counts, 0),
     term |-> Append(st.term, FALSE)]

isCharCommonPrefix(st, c, level) ==
    /\ level < getTreeHeight(st)
    /\ ~st.term[level + 1]
    /\ c = st.labels[level + 1][Len(st.labels[level + 1])]

\* isLevelEmpty with > for >= and without the test of the label vector
isLevelEmpty_Strict(st, level) == level > getTreeHeight(st)

isLevelEmpty(st, level) ==
    \/ level >= getTreeHeight(st)
    \/ st.labels[level + 1] = <<>>

moveToNextItemSlot(st, level) ==
    IF getNumItems(st, level) % kWordSize = 0
    THEN [st EXCEPT !.cib[level + 1] = PushWord(@),
                    !.louds[level + 1] = PushWord(@)]
    ELSE st

\* sets parent node's child indicator (fst_builder.hpp lines 247-249)
SetParentChildIndicator(st, level) ==
    IF level > 0
    THEN [st EXCEPT !.cib[level] = setBit(@, getNumItems(st, level - 1) - 1)]
    ELSE st

\* PushLabel with the LOUDS bit set one slot too far
PushLabel_BitPastSlot(st, c, level, is_start_of_node) ==
    LET s1 == [st EXCEPT !.labels[level + 1] = Append(@, c)]
    IN  IF is_start_of_node
        THEN [s1 EXCEPT !.louds[level + 1] = setBit(@, getNumItems(s1, level)),
                        !.node_counts[level + 1] = @ + 1]
        ELSE s1

\* lines 251-255
PushLabel(st, c, level, is_start_of_node) ==
    LET s1 == [st EXCEPT !.labels[level + 1] = Append(@, c)]
    IN  IF is_start_of_node
        THEN [s1 EXCEPT !.louds[level + 1] = setBit(@, getNumItems(s1, level) - 1),
                        !.node_counts[level + 1] = @ + 1]
        ELSE s1

insertKeyByte(st, c, level, is_start_of_node, is_term) ==
    LET s0 == IF level >= getTreeHeight(st) THEN addLevel(st) ELSE st
        s1 == SetParentChildIndicator(s0, level)
        s2 == PushLabel(s1, c, level, is_start_of_node)
        s3 == [s2 EXCEPT !.term[level + 1] = is_term]
    IN  moveToNextItemSlot(s3, level)

\* skipCommonPrefix: the loop from level on; yields the state and the level
RECURSIVE skipFrom(_, _, _)
skipFrom(st, key, level) ==
    IF level < Len(key) /\ isCharCommonPrefix(st, CharAt(key, level), level)
    THEN skipFrom([st EXCEPT !.cib[level + 1] =
                                 setBit(@, getNumItems(st, level) - 1)],
                  key, level + 1)
    ELSE [st |-> st, level |-> level]

skipCommonPrefix(st, key) == skipFrom(st, key, 0)

\* the early-return test of insertKeyBytesToTrieUntilUnique (lines 202-203)
UniqueAt(key, next_key, level) ==
    \/ level > Len(next_key)
    \/ ~isSameKey(Substr(key, level), Substr(next_key, level))

\* the while loop of insertKeyBytesToTrieUntilUnique (lines 211-215)
RECURSIVE insertLoop(_, _, _, _)
insertLoop(st, key, next_key, level) ==
    IF /\ level < Len(key)
       /\ level < Len(next_key)
       /\ CharAt(key, level - 1) = CharAt(next_key, level - 1)
    THEN insertLoop(insertKeyByte(st, CharAt(key, level), level, TRUE, FALSE),
                    key, next_key, level + 1)
    ELSE [st |-> st, level |-> level]

\* positions_[level - 1].emplace_back(position)
EmitPosition(st, level, position) ==
    [st EXCEPT !.positions[level] = Append(@, position)]

\* Body of insertKeyBytesToTrieUntilUnique after its assert.
insertKeyBytesToTrieUntilUnique(st, key, position, next_key, start_level) ==
    LET s1 == insertKeyByte(st, CharAt(key, start_level), start_level,
                            isLevelEmpty(st, start_level), FALSE)
        level == start_level + 1
    IN  IF UniqueAt(key, next_key, level)
        THEN EmitPosition(s1, level, position)
        ELSE LET r == insertLoop(s1, key, next_key, level)
             IN  EmitPosition(r.st, r.level, position)

\* the duplicate-skipping loop of buildSparse (line 164): the last index of
\* the run of keys equal to ks[curpos], starting the scan at idx
RECURSIVE LastDuplicate(_, _, _)
LastDuplicate(ks, curpos, idx) ==
    IF idx + 1 < Len(ks) /\ isSameKey(ks[curpos + 1], ks[idx + 2])
    THEN LastDuplicate(ks, curpos, idx + 1)
    ELSE idx

\* RecordedPosition taking the loop variable after the duplicates are skipped
RecordedPosition_Last(curpos, last) == last

\* the position handed to insertKeyBytesToTrieUntilUnique (lines 166, 168)
RecordedPosition(curpos, last) == curpos

\* One iteration of the for loop of buildSparse, from loop index idx.
\* Yields the new builder state, the next loop index and whether the assert
\* at the head of insertKeyBytesToTrieUntilUnique stopped the program.
buildSparseIteration(st, ks, idx, nd) ==
    LET sk == skipCommonPrefix(st, ks[idx + 1])
        curpos == idx
        last == LastDuplicate(ks, curpos, idx)
        next_key == IF last < Len(ks) - 1 THEN ks[last + 2] ELSE <<>>
        key == ks[curpos + 1]
    IN  IF ~nd /\ ~(sk.level < Len(key))
        THEN [st |-> sk.st, idx |-> last, aborted |-> TRUE]
        ELSE [st |-> insertKeyBytesToTrieUntilUnique(
                         sk.st, key, RecordedPosition(curpos, last),
                         next_key, sk.level),
              idx |-> last + 1, aborted |-> FALSE]

----------------------------------------------------------------------------
\* Cut-off level and dense levels

RECURSIVE computeDenseMemFrom(_, _, _)
computeDenseMemFrom(nc, level, downto_level) ==
    IF level < downto_level
    THEN 2 * kFanout * nc[level + 1]
         + (IF level > 0 THEN nc[level] \div 8 + 1 ELSE 0)
         + computeDenseMemFrom(nc, level + 1, downto_level)
    ELSE 0

computeDenseMem(nc, downto_level) == computeDenseMemFrom(nc, 0, downto_level)

RECURSIVE computeSparseMem(_, _)
computeSparseMem(lab, start_level) ==
    IF start_level < Len(lab)
    THEN LET num_items == Len(lab[start_level + 1])
         IN  num_items + (2 * num_items) \div 8 + 1
             + computeSparseMem(lab, start_level + 1)
    ELSE 0

\* KeepDense with the ratio applied to the sparse size
KeepDense_RatioOnSparse(nc, lab, ratio, cutoff_level) ==
    /\ cutoff_level < Len(lab)
    /\ computeDenseMem(nc, cutoff_level) < computeSparseMem(lab, cutoff_level) * ratio

\* the loop condition of determineCutoffLevel (lines 265-266)
KeepDense(nc, lab, ratio, cutoff_level) ==
    /\ cutoff_level < Len(lab)
    /\ computeDenseMem(nc, cutoff_level) * ratio < computeSparseMem(lab, cutoff_level)

RECURSIVE cutoffFrom(_, _, _, _)
cutoffFrom(nc, lab, ratio, cutoff_level) ==
    IF KeepDense(nc, lab, ratio, cutoff_level)
    THEN cutoffFrom(nc, lab, ratio, cutoff_level + 1)
    ELSE cutoff_level

\* the value determineCutoffLevel gives sparse_start_level_ (lines 262-272)
CutoffLevel(nc, lab, ratio) == cutoffFrom(nc, lab, ratio, 0)

\* positions_[from], ..., positions_[to - 1] concatenated (lines 275-284)
RECURSIVE ConcatLevels(_, _, _)
ConcatLevels(pos, from, to) ==
    IF from < to /\ from < Len(pos)
    THEN pos[from + 1] \o ConcatLevels(pos, from + 1, to)
    ELSE <<>>

isStartOfNode(level, pos) == readBit(louds_bits_[level + 1], pos)

isTerminator(level, pos) ==
    /\ labels_[level + 1][pos + 1] = kTerminator
    /\ ~readBit(child_indicator_bits_[level + 1], pos)

\* initDenseVectors: the three vectors of one level, all bits clear
NodeBitmap(level) ==
    [nwords |-> node_counts_[level + 1] * (kFanout \div kWordSize), ones |-> {}]

PrefixkeyBits(level) ==
    [nwords |-> (node_counts_[level + 1] + kWordSize - 1) \div kWordSize,
     ones |-> {}]

\* setLabelAndChildIndicatorBitmap without the test of the sparse child bit
setLabelAndChildIndicatorBitmap_NoTest(d, lv, n, p) ==
    LET label == labels_[lv + 1][p + 1]
    IN  [d EXCEPT !.lab = setBit(@, n * kFanout + label),
                  !.cib = setBit(@, n * kFanout + label)]

\* setLabelAndChildIndicatorBitmap on the dense vectors of the level
\* being filled (lab, cib: the level's two bitmaps)
setLabelAndChildIndicatorBitmap(d, lv, n, p) ==
    LET label == labels_[lv + 1][p + 1]
        d1 == [d EXCEPT !.lab = setBit(@, n * kFanout + label)]
    IN  IF readBit(child_indicator_bits_[lv + 1], p)
        THEN [d1 EXCEPT !.cib = setBit(@, n * kFanout + label)]
        ELSE d1

\* buildDense lines 309-316: the vectors of a level after initDenseVectors
\* and the treatment of slot 0
denseLevelStart(lv) ==
    LET d0 == [lab |-> NodeBitmap(lv), cib |-> NodeBitmap(lv),
               pk |-> PrefixkeyBits(lv)]
    IN  IF Len(labels_[lv + 1]) = 0 THEN d0
        ELSE IF isTerminator(lv, 0)
        THEN [d0 EXCEPT !.pk = setBit(@, 0)]
        ELSE setLabelAndChildIndicatorBitmap(d0, lv, 0, 0)

\* buildDense lines 318-325: one iteration of the loop over the slots
\* pos >= 1; yields the vectors and node_num
denseSlot(d, lv, n, p) ==
    LET n1 == IF isStartOfNode(lv, p) THEN n + 1 ELSE n
    IN  IF isStartOfNode(lv, p) /\ isTerminator(lv, p)
        THEN [d |-> [d EXCEPT !.pk = setBit(@, n1)], node_num |-> n1]
        ELSE [d |-> setLabelAndChildIndicatorBitmap(d, lv, n1, p),
              node_num |-> n1]

----------------------------------------------------------------------------
\* BitvectorSelect (select.hpp)

\* bits_[word_id], as the set of the MSB-first offsets of its set bits
Word(bits, word_id) ==
    {p % kWordSize : p \in {q \in bits.ones : q \div kWordSize = word_id}}

\* popcount.h: number of set bits of a word
popcount(word) == Cardinality(word)

\* popcount.h: the offset of the rank-th set bit of a word, 1 <= rank <=
\* popcount(word); kWordSize stands for the unspecified result otherwise
select64_popcount_search(word, r) ==
    IF r >= 1 /\ r <= Cardinality(word)
    THEN CHOOSE o \in word : Cardinality({x \in word : x < o}) = r - 1
    ELSE kWordSize

\* word << offset >> offset: the most significant offset bits zeroed out
ZeroOutMsb(word, offset) == {o \in word : o >= offset}

\* the while loop of initSelectLut within word w (lines 92-97)
RECURSIVE lutSamples(_, _, _, _, _)
lutSamples(bits, interval, lut, sampling_ones, cumu_ones_upto_word) ==
    LET w == lut.w
        num_ones_in_word == popcount(Word(bits, w))
    IN  IF sampling_ones <= cumu_ones_upto_word + num_ones_in_word
        THEN LET diff == sampling_ones - cumu_ones_upto_word
                 result_pos == w * kWordSize
                               + select64_popcount_search(Word(bits, w), diff)
             IN  lutSamples(bits, interval,
                            [lut EXCEPT !.v = Append(@, result_pos)],
                            sampling_ones + interval, cumu_ones_upto_word)
        ELSE [v |-> lut.v, w |-> w, sampling_ones |-> sampling_ones]

\* the for loop of initSelectLut over the words (lines 90-99)
RECURSIVE lutWords(_, _, _, _, _, _)
lutWords(bits, interval, num_words, w, acc, cumu_ones_upto_word) ==
    IF w < num_words
    THEN LET r == lutSamples(bits, interval, [v |-> acc.v, w |-> w],
                             acc.sampling_ones, cumu_ones_upto_word)
         IN  lutWords(bits, interval, num_words, w + 1,
                      [v |-> r.v, sampling_ones |-> r.sampling_ones],
                      cumu_ones_upto_word + popcount(Word(bits, w)))
    ELSE [lut |-> acc.v, num_ones |-> cumu_ones_upto_word]

\* number of words initSelectLut walks (lines 82-84)
NumWords(num_bits) ==
    (num_bits \div kWordSize) + (IF num_bits % kWordSize # 0 THEN 1 ELSE 0)

\* initSelectLut: the look-up table (slot i is select_lut_[i - 1]) and
\* num_ones_
initSelectLut(bits, num_bits, interval) ==
    lutWords(bits, interval, NumWords(num_bits), 0,
             [v |-> <<0>>, sampling_ones |-> interval], 0)

\* RankLeft without the decrement for table slot 0
RankLeft_NoDecrement(r, interval) == r % interval

\* select lines 39-44: rank_left once the table slot is chosen
RankLeft(r, interval) ==
    IF r \div interval = 0 THEN (r % interval) - 1 ELSE r % interval

\* what select yields in the model when it reads bits_[word_id] past the
\* end of the vector (undefined behaviour)
ReadPastEnd == -1

\* the scan loop of select (lines 61-67)
RECURSIVE selectScan(_, _, _, _)
selectScan(bits, word_id, word, rank_left) ==
    IF word_id >= bits.nwords THEN ReadPastEnd
    ELSE IF popcount(word) < rank_left
    THEN selectScan(bits, word_id + 1, Word(bits, word_id + 1),
                    rank_left - popcount(word))
    ELSE word_id * kWordSize + select64_popcount_search(word, rank_left)

select(bits, lut, interval, r) ==
    LET lut_idx == r \div interval
        rank_left == RankLeft(r, interval)
        p == lut[lut_idx + 1]
        at_end == (p % kWordSize) = kWordSize - 1
        word_id == IF at_end THEN (p \div kWordSize) + 1 ELSE p \div kWordSize
        offset == IF at_end THEN 0 ELSE (p % kWordSize) + 1
    IN  IF rank_left = 0 THEN p
        ELSE selectScan(bits, word_id,
                        ZeroOutMsb(Word(bits, word_id), offset), rank_left)

----------------------------------------------------------------------------
\* Inputs

RECURSIVE KeysOfLen(_, _)
KeysOfLen(A, n) ==
    IF n = 0 THEN {<<>>}
    ELSE {Append(k, c) : k \in KeysOfLen(A, n - 1), c \in A}

\* the keys build() is given: non-empty (an empty key fails the assert of
\* line 187 on its first use)
KeyUniverse(A) == UNION {KeysOfLen(A, n) : n \in 1..MaxLen}

\* REQUIRED: provided key list must be sorted (non-decreasing)
RECURSIVE SortedLists(_, _)
SortedLists(A, n) ==
    IF n = 1 THEN {<<k>> : k \in KeyUniverse(A)}
    ELSE UNION {{Append(s, k) :
                     k \in {x \in KeyUniverse(A) : ~LexLess(x, s[n - 1])}}
                : s \in SortedLists(A, n - 1)}

KeyLists == UNION {SortedLists(A, n) : A \in Alphabets, n \in 1..MaxKeys}

\* All two-byte keys <<f, s>>, f in 1..nf, s in 1..ns, in sorted order
Grid(nf, ns) ==
    [j \in 1..(nf * ns) |-> <<((j - 1) \div ns) + 1, ((j - 1) % ns) + 1>>]

GridLists ==
    {Grid(nf, ns) : nf \in 1..GridFirst, ns \in {1, GridSecond - 1, GridSecond}}

\* Bit positions of the vectors handed to BitvectorSelect: the first two
\* and the last offset of each word
SelPositions ==
    {w * kWordSize + o : w \in 0..(MaxSelWords - 1), o \in {0, 1, kWordSize - 1}}

----------------------------------------------------------------------------
\* The builder as a state machine

\* the members after the constructor (lines 16-19); no loop entered yet
FreshBuilder ==
    /\ i = 0
    /\ sparse_start_level_ = 0
    /\ positions_ = <<>>
    /\ labels_ = <<>>
    /\ child_indicator_bits_ = <<>>
    /\ louds_bits_ = <<>>
    /\ positions_sparse_ = <<>>
    /\ bitmap_labels_ = <<>>
    /\ bitmap_child_indicator_bits_ = <<>>
    /\ prefixkey_indicator_bits_ = <<>>
    /\ positions_dense_ = <<>>
    /\ node_counts_ = <<>>
    /\ is_last_item_terminator_ = <<>>
    /\ d_level = 0
    /\ d_pos = 0
    /\ d_node_num = 0

\* FSTBuilder(include_dense, sparse_dense_ratio) followed by the call of
\* build(keys)
InitBuilder ==
    /\ ndebug \in BOOLEAN
    /\ include_dense_ \in BOOLEAN
    /\ sparse_dense_ratio_ \in {1, MaxRatio}
    /\ pc = "buildSparse"
    /\ FreshBuilder

\* no BitvectorSelect constructed
NoSelect ==
    /\ sel_pc = "idle"
    /\ bits_ = EmptyBits
    /\ num_bits_ = 0
    /\ sample_interval_ = 0
    /\ num_ones_ = 0
    /\ select_lut_ = <<>>
    /\ sel_rank = 0
    /\ sel_result = 0

Init ==
    /\ keys \in KeyLists
    /\ InitBuilder
    /\ NoSelect

InitCutoff ==
    /\ keys \in GridLists
    /\ InitBuilder
    /\ NoSelect

\* buildSparse: one iteration of its for loop
BuildSparseStep ==
    /\ pc = "buildSparse"
    /\ i < Len(keys)
    /\ LET r == buildSparseIteration(SparseState, keys, i, ndebug)
       IN  /\ labels_' = r.st.labels
           /\ child_indicator_bits_' = r.st.cib
           /\ louds_bits_' = r.st.louds
           /\ positions_' = r.st.positions
           /\ node_counts_' = r.st.node_counts
           /\ is_last_item_terminator_' = r.st.term
           /\ i' = r.idx
           /\ pc' = IF r.aborted THEN "aborted"
                    ELSE IF r.idx < Len(keys) THEN "buildSparse"
                    ELSE "built"
    /\ UNCHANGED <<keys, ndebug, include_dense_, sparse_dense_ratio_,
                   sparse_start_level_, positions_sparse_, bitmap_labels_,
                   bitmap_child_indicator_bits_, prefixkey_indicator_bits_,
                   positions_dense_, d_level, d_pos, d_node_num, svars>>

\* build() with include_dense_ unset: returns after buildSparse
ReturnSparseOnly ==
    /\ pc = "built"
    /\ ~include_dense_
    /\ pc' = "done"
    /\ UNCHANGED <<keys, ndebug, i, include_dense_, sparse_dense_ratio_,
                   sparse_start_level_, positions_, labels_,
                   child_indicator_bits_, louds_bits_, positions_sparse_,
                   bitmap_labels_, bitmap_child_indicator_bits_,
                   prefixkey_indicator_bits_, positions_dense_, node_counts_,
                   is_last_item_terminator_, d_level, d_pos, d_node_num, svars>>

\* determineCutoffLevel
DetermineCutoffLevel ==
    /\ pc = "built"
    /\ include_dense_
    /\ LET cutoff_level == CutoffLevel(node_counts_, labels_, sparse_dense_ratio_)
       IN  /\ sparse_start_level_' = cutoff_level
           /\ positions_dense_' =
                  positions_dense_ \o ConcatLevels(positions_, 0, cutoff_level)
           /\ positions_sparse_' =
                  positions_sparse_
                  \o ConcatLevels(positions_, cutoff_level, Len(positions_))
    /\ positions_' = <<>>
    /\ pc' = "buildDense"
    /\ UNCHANGED <<keys, ndebug, i, include_dense_, sparse_dense_ratio_, labels_,
                   child_indicator_bits_, louds_bits_, bitmap_labels_,
                   bitmap_child_indicator_bits_, prefixkey_indicator_bits_,
                   node_counts_, is_last_item_terminator_, d_level, d_pos, d_node_num, svars>>

\* what follows the last slot of a d_level in buildDense
AfterLevel(lv) == IF lv + 1 < sparse_start_level_ THEN "buildDense" ELSE "done"

DenseUnchanged ==
    UNCHANGED <<keys, ndebug, i, include_dense_, sparse_dense_ratio_,
                sparse_start_level_, positions_, labels_,
                child_indicator_bits_, louds_bits_, positions_sparse_,
                positions_dense_, node_counts_, is_last_item_terminator_,
                svars>>

\* buildDense: the head of one iteration of its level loop (lines 308-316);
\* build() returns when the loop ends
BuildDenseLevel ==
    /\ pc = "buildDense"
    /\ IF d_level < sparse_start_level_
       THEN LET d == denseLevelStart(d_level)
            IN  /\ bitmap_labels_' = Append(bitmap_labels_, d.lab)
                /\ bitmap_child_indicator_bits_' =
                       Append(bitmap_child_indicator_bits_, d.cib)
                /\ prefixkey_indicator_bits_' =
                       Append(prefixkey_indicator_bits_, d.pk)
                /\ d_node_num' = 0
                /\ d_pos' = 1
                /\ IF 1 < Len(labels_[d_level + 1])
                   THEN pc' = "denseSlots" /\ d_level' = d_level
                   ELSE pc' = AfterLevel(d_level) /\ d_level' = d_level + 1
       ELSE /\ pc' = "done"
            /\ UNCHANGED <<bitmap_labels_, bitmap_child_indicator_bits_,
                           prefixkey_indicator_bits_, d_level, d_pos, d_node_num>>
    /\ DenseUnchanged

\* buildDense: one iteration of its slot loop (lines 317-326)
BuildDenseSlot ==
    /\ pc = "denseSlots"
    /\ LET r == denseSlot([lab |-> bitmap_labels_[d_level + 1],
                           cib |-> bitmap_child_indicator_bits_[d_level + 1],
                           pk |-> prefixkey_indicator_bits_[d_level + 1]],
                          d_level, d_node_num, d_pos)
       IN  /\ bitmap_labels_' = [bitmap_labels_ EXCEPT ![d_level + 1] = r.d.lab]
           /\ bitmap_child_indicator_bits_' =
                  [bitmap_child_indicator_bits_ EXCEPT ![d_level + 1] = r.d.cib]
           /\ prefixkey_indicator_bits_' =
                  [prefixkey_indicator_bits_ EXCEPT ![d_level + 1] = r.d.pk]
           /\ d_node_num' = r.node_num
    /\ d_pos' = d_pos + 1
    /\ IF d_pos + 1 < Len(labels_[d_level + 1])
       THEN pc' = "denseSlots" /\ d_level' = d_level
       ELSE pc' = AfterLevel(d_level) /\ d_level' = d_level + 1
    /\ DenseUnchanged

BuilderIdle ==
    UNCHANGED bvars

\* the state after BitvectorSelect's constructor
InitSelect ==
    /\ keys = <<>>
    /\ FreshBuilder
    /\ ndebug = FALSE
    /\ include_dense_ = FALSE
    /\ sparse_dense_ratio_ = 1
    /\ pc = "idle"
    /\ sel_pc = "constructed"
    /\ \E ones \in SUBSET SelPositions, nw \in 1..MaxSelWords :
           /\ \A p \in ones : p < nw * kWordSize
           /\ bits_ = [nwords |-> nw, ones |-> ones]
           /\ num_bits_ \in {nw * kWordSize - 1, nw * kWordSize}
           /\ \A p \in ones : p < num_bits_
    /\ sample_interval_ \in 1..MaxInterval
    /\ num_ones_ = initSelectLut(bits_, num_bits_, sample_interval_).num_ones
    /\ select_lut_ = initSelectLut(bits_, num_bits_, sample_interval_).lut
    /\ sel_rank = 0
    /\ sel_result = 0

\* select(r), within its asserts rank > 0 and rank <= num_ones_
Select ==
    /\ sel_pc \in {"constructed", "selected"}
    /\ \E r \in 1..num_ones_ :
           /\ sel_rank' = r
           /\ LET v == select(bits_, select_lut_, sample_interval_, r)
              IN  IF v = ReadPastEnd
                  THEN sel_result' \in SelPositions \cup {num_bits_}
                  ELSE sel_result' = v
    /\ sel_pc' = "selected"
    /\ UNCHANGED <<bits_, num_bits_, sample_interval_, num_ones_, select_lut_>>
    /\ BuilderIdle

NextSelect == Select

SpecSelect == InitSelect /\ [][NextSelect]_vars

Next ==
    \/ BuildSparseStep
    \/ ReturnSparseOnly
    \/ DetermineCutoffLevel
    \/ BuildDenseLevel
    \/ BuildDenseSlot

Spec == Init /\ [][Next]_vars

SpecCutoff == InitCutoff /\ [][Next]_vars

----------------------------------------------------------------------------
\* Notions the properties below are stated in

TreeHeight == Len(labels_)

DistinctKeys == {keys[j] : j \in 1..Len(keys)}

IsStrictPrefix(a, b) == Len(a) < Len(b) /\ SubSeq(b, 1, Len(a)) = a

TerminatorFree(ks) ==
    \A j \in 1..Len(ks) : \A k \in 1..Len(ks[j]) : ks[j][k] # kTerminator

StrictlyIncreasing(ks) == \A j \in 1..(Len(ks) - 1) : LexLess(ks[j], ks[j + 1])

HasAdjacentDuplicate(ks) == \E j \in 1..(Len(ks) - 1) : ks[j] = ks[j + 1]

\* ks without the keys equal to their predecessor
RECURSIVE Dedup(_)
Dedup(ks) ==
    IF Len(ks) <= 1 THEN ks
    ELSE LET front == Dedup(SubSeq(ks, 1, Len(ks) - 1))
         IN  IF ks[Len(ks)] = ks[Len(ks) - 1] THEN front
             ELSE Append(front, ks[Len(ks)])

\* 0-based index of the first occurrence of k in ks
FirstIndex(ks, k) ==
    (CHOOSE j \in 1..Len(ks) : ks[j] = k /\ \A m \in 1..(j - 1) : ks[m] # k) - 1

\* buildSparse run to its end on ks from an empty builder
RECURSIVE RunSparseFrom(_, _, _, _)
RunSparseFrom(st, ks, idx, nd) ==
    IF idx < Len(ks)
    THEN LET r == buildSparseIteration(st, ks, idx, nd)
         IN  IF r.aborted THEN r ELSE RunSparseFrom(r.st, ks, r.idx, nd)
    ELSE [st |-> st, idx |-> idx, aborted |-> FALSE]

RunSparse(ks, nd) == RunSparseFrom(EmptySparse, ks, 0, nd)

\* all entries of a per-level list of position lists
AllPositions(pp) ==
    UNION {{pp[l][k] : k \in 1..Len(pp[l])} : l \in 1..Len(pp)}

RECURSIVE TotalLen(_)
TotalLen(pp) == IF pp = <<>> THEN 0 ELSE Len(pp[1]) + TotalLen(Tail(pp))

BuildReturned == pc = "done"

SparseBuilt == pc \in {"built", "buildDense", "denseSlots", "done"}

\* slots of level lv (0-based positions)
Slots(lv) == 0..(Len(labels_[lv + 1]) - 1)

\* the node a slot belongs to, nodes numbered from 0 by the set LOUDS bits
NodeOf(lv, p) == Cardinality({q \in louds_bits_[lv + 1].ones : q <= p}) - 1

\* a node-start slot carrying the terminator with its child indicator clear
IsPrefixKeySlot(lv, p) ==
    /\ p \in louds_bits_[lv + 1].ones
    /\ labels_[lv + 1][p + 1] = kTerminator
    /\ p \notin child_indicator_bits_[lv + 1].ones

LabelSlots(lv) == {p \in Slots(lv) : ~IsPrefixKeySlot(lv, p)}

BitOf(lv, p) == NodeOf(lv, p) * kFanout + labels_[lv + 1][p + 1]

\* the asserts of setBit hold: every bit set lies within the words pushed
AllBitsInRange ==
    /\ \A l \in 1..Len(louds_bits_) :
           /\ \A p \in louds_bits_[l].ones : InRange(louds_bits_[l], p)
           /\ \A p \in child_indicator_bits_[l].ones :
                  InRange(child_indicator_bits_[l], p)
    /\ \A l \in 1..Len(bitmap_labels_) :
           /\ \A p \in bitmap_labels_[l].ones : InRange(bitmap_labels_[l], p)
           /\ \A p \in bitmap_child_indicator_bits_[l].ones :
                  InRange(bitmap_child_indicator_bits_[l], p)
           /\ \A p \in prefixkey_indicator_bits_[l].ones :
                  InRange(prefixkey_indicator_bits_[l], p)

\* select never reads past the end of a vector whose bit 0 is set
SelectReadsInRange ==
    (sel_pc = "constructed" /\ 0 \in bits_.ones) =>
        \A r \in 1..num_ones_ :
            select(bits_, select_lut_, sample_interval_, r) # ReadPastEnd

----------------------------------------------------------------------------
\* Properties

\* C1: after build(keys) returns, under either setting of include_dense, the
\* dense and the sparse position outputs together hold as many entries as
\* the input has distinct keys.
C1_PositionsCountDistinctKeys ==
    BuildReturned =>
        Len(positions_dense_) + Len(positions_sparse_) = Cardinality(DistinctKeys)

\* C2: when the key K just inserted is a strict prefix of the next distinct
\* key N, level len(K) ends with a slot carrying the terminator label, LOUDS
\* bit set and child indicator clear; and once N is inserted its byte at
\* index len(K) follows that slot in the same node (LOUDS bit clear).
C2_TerminatorSlotForPrefixKey ==
    /\ (/\ pc = "buildSparse"
        /\ i >= 1 /\ i < Len(keys)
        /\ IsStrictPrefix(keys[i], keys[i + 1]))
       => LET lv == Len(keys[i])
          IN  /\ TreeHeight > lv
              /\ LET n == Len(labels_[lv + 1])
                 IN  /\ n >= 1
                     /\ labels_[lv + 1][n] = kTerminator
                     /\ (n - 1) \in louds_bits_[lv + 1].ones
                     /\ (n - 1) \notin child_indicator_bits_[lv + 1].ones
    /\ (/\ pc \in {"buildSparse", "built"}
        /\ i >= 2
        /\ \E j \in 1..(i - 1) :
               /\ IsStrictPrefix(keys[j], keys[i])
               /\ \A m \in (j + 1)..i : keys[m] = keys[i])
       => LET K == CHOOSE k \in DistinctKeys :
                       \E j \in 1..(i - 1) :
                           /\ k = keys[j]
                           /\ IsStrictPrefix(k, keys[i])
                           /\ \A m \in (j + 1)..i : keys[m] = keys[i]
              lv == Len(K)
          IN  /\ TreeHeight > lv
              /\ LET n == Len(labels_[lv + 1])
                 IN  /\ n >= 2
                     /\ labels_[lv + 1][n - 1] = kTerminator
                     /\ (n - 2) \in louds_bits_[lv + 1].ones
                     /\ (n - 2) \notin child_indicator_bits_[lv + 1].ones
                     /\ labels_[lv + 1][n] = keys[i][lv + 1]
                     /\ (n - 1) \notin louds_bits_[lv + 1].ones

\* C3: after buildSparse over a sorted list of keys free of the terminator
\* byte, for every level L with 0 < L < tree_height the number of set bits of
\* child_indicator_bits[L-1] equals node_counts[L].  (Stated for the build
\* with assertions enabled, where buildSparse ends only if none failed.)
C3_ChildIndicatorsCountNodes ==
    (SparseBuilt /\ TerminatorFree(keys) /\ ~ndebug) =>
        \A L \in 1..(TreeHeight - 1) :
            Cardinality(child_indicator_bits_[L].ones) = node_counts_[L + 1]

\* C4: for a sorted key list with adjacent equal keys, buildSparse leaves the
\* per-level labels, LOUDS bits, child-indicator bits and node counts it
\* leaves for the list without the duplicates, and records for each distinct
\* key exactly one position, the input index of the key's first occurrence.
C4_DuplicatesCollapsed ==
    (pc = "built" /\ HasAdjacentDuplicate(keys)) =>
        LET d == Dedup(keys)
            r == RunSparse(d, ndebug)
        IN  /\ ~r.aborted
            /\ labels_ = r.st.labels
            /\ louds_bits_ = r.st.louds
            /\ child_indicator_bits_ = r.st.cib
            /\ node_counts_ = r.st.node_counts
            /\ Len(positions_) = Len(r.st.positions)
            /\ \A l \in 1..Len(positions_) :
                   /\ Len(positions_[l]) = Len(r.st.positions[l])
                   /\ \A k \in 1..Len(positions_[l]) :
                          positions_[l][k] =
                              FirstIndex(keys, d[r.st.positions[l][k] + 1])
            /\ TotalLen(positions_) = Cardinality(DistinctKeys)
            /\ AllPositions(positions_) = {FirstIndex(keys, k) : k \in DistinctKeys}

\* C4 witness: a list with a duplicated first key and a second key is built,
\* and the positions recorded are 0 and 2.
C4_Witness ==
    /\ pc = "built"
    /\ Len(keys) = 3 /\ keys[1] = keys[2] /\ keys[2] # keys[3]
    /\ AllPositions(positions_) = {0, 2}

\* C5 as stated: for a single key K, len(K) >= 1, buildSparse inserts every
\* byte of K, one per level and each as a node start, tree_height = len(K),
\* and position 0 is recorded at level len(K) - 1.
C5_SingleKeyEveryByte ==
    (pc = "built" /\ Len(keys) = 1 /\ Len(keys[1]) >= 1) =>
        LET K == keys[1]
        IN  /\ TreeHeight = Len(K)
            /\ \A l \in 1..Len(K) :
                   /\ labels_[l] = <<K[l]>>
                   /\ louds_bits_[l].ones = {0}
            /\ positions_[Len(K)] = <<0>>

\* C5 amended: for a single key K, len(K) >= 1, buildSparse inserts only the
\* first byte of K, at level 0 and as a node start, so that tree_height = 1,
\* and position 0 is recorded at level 0.
C5_SingleKeyFirstByteOnly ==
    (pc = "built" /\ Len(keys) = 1 /\ Len(keys[1]) >= 1) =>
        /\ TreeHeight = 1
        /\ labels_ = << <<keys[1][1]>> >>
        /\ louds_bits_[1].ones = {0}
        /\ child_indicator_bits_[1].ones = {}
        /\ node_counts_ = <<1>>
        /\ positions_ = << <<0>> >>

\* C5 witness: a single key of two bytes is built into a trie of height 1.
C5_Witness ==
    /\ pc = "built"
    /\ Len(keys) = 1 /\ Len(keys[1]) = 2
    /\ TreeHeight = 1
    /\ positions_ = << <<0>> >>

\* C6 as stated: with include_dense set, for ratios R1 <= R2 the
\* sparse_start_level computed with R2 is at least the one computed with R1.
C6_HigherRatioLargerDense ==
    (BuildReturned /\ include_dense_) =>
        \A R1 \in 1..sparse_dense_ratio_ :
            sparse_start_level_ >= CutoffLevel(node_counts_, labels_, R1)

\* C6 amended: with include_dense set, a higher ratio never yields a larger
\* dense region: for ratios R1 <= R2 the sparse_start_level computed with R2
\* is at most the one computed with R1.
C6_HigherRatioSmallerDense ==
    (BuildReturned /\ include_dense_) =>
        \A R1 \in 1..sparse_dense_ratio_ :
            sparse_start_level_ <= CutoffLevel(node_counts_, labels_, R1)

\* C6 witness: a build with ratio R2 > 1 whose dense region is strictly
\* smaller than the one ratio 1 gives for the same keys.
C6_Witness ==
    /\ BuildReturned /\ include_dense_
    /\ sparse_dense_ratio_ > 1
    /\ sparse_start_level_ = 1
    /\ CutoffLevel(node_counts_, labels_, 1) = 2

\* C7: for a bit vector whose bit 0 is set, any sample interval and any rank
\* r in 1..num_ones, select(r) is the position p of a set bit with exactly
\* r - 1 set bits at smaller positions.
C7_SelectIsRankthOne ==
    (sel_pc = "selected" /\ 0 \in bits_.ones) =>
        /\ sel_result \in bits_.ones
        /\ Cardinality({q \in bits_.ones : q < sel_result}) = sel_rank - 1

\* C7 witness: with bit 0 set and an interval of 2, select(3) is answered
\* from table slot 1 by a scan that ends in a later word.
C7_Witness ==
    /\ sel_pc = "selected"
    /\ 0 \in bits_.ones
    /\ sample_interval_ = 2
    /\ sel_rank = 3
    /\ select_lut_[2] < kWordSize
    /\ sel_result >= kWordSize

C9_LevelsStartWithNodeStart ==
    (pc # "idle") =>
        \A L \in 1..TreeHeight :
            /\ labels_[L] # <<>>
            /\ 0 \in louds_bits_[L].ones

\* C9 witness: in the middle of buildSparse, two levels are allocated and
\* the second holds several slots.
C9_Witness ==
    /\ pc = "buildSparse"
    /\ i >= 2
    /\ TreeHeight >= 2
    /\ Len(labels_[2]) >= 2

\* C10: for a strictly increasing list of non-empty keys free of the
\* terminator byte, the assertion start_level < key.length() holds on every
\* call of insertKeyBytesToTrieUntilUnique.
C10_AssertionHolds ==
    (/\ StrictlyIncreasing(keys)
     /\ TerminatorFree(keys)
     /\ \A j \in 1..Len(keys) : keys[j] # <<>>)
    => pc # "aborted"

====
